---- MODULE Spec2Model ----
(***************************************************************************)
(* The offline capture queue of mindmap-pwa: the localStorage-backed queue *)
(* (src/src/offlineQueue.ts), the remote write createNodeWithTags          *)
(* (src/lib/nodeWrites.ts), the two runSync guards (App.tsx and the        *)
(* capture page), the interactive capture handlers and the quick add       *)
(* parser (src/src/lib/quickAddParse.ts).                                  *)
(*                                                                         *)
(* JavaScript runs one handler at a time; a handler is interrupted only at *)
(* an await.  Every action below is one run-to-the-next-await piece of a   *)
(* handler.  The awaits inside createNodeWithTags touch only the remote    *)
(* store, so one write call is one suspension (the call is issued, then    *)
(* its continuation runs with the responses the remote store gave).        *)
(***************************************************************************)
EXTENDS Integers, Sequences, FiniteSets, TLC

\* ---------------------------------------------------------------- bounds
\* captures the user submits with a non-blank title
MaxRecords == 2
\* sync requests (timer ticks, sign-ins, button presses) over a run
MaxSyncRuns == 3
\* tags on one capture
MaxTags == 1
\* tags on the payload of a createNodeWithTags call taken on its own
MaxWriteTags == 3
\* words on a line given to parseQuickAdd
MaxTokens == 3
\* elements of a stored array that the app did not write
MaxStored == 2
\* sync requests over a run that starts from a queue longer than a batch
MaxBatchRuns == 2
\* faults of the environment over a run: a response lost on the way back (the
\* row stored, the call failed), the wall clock set back, the session gone, a
\* restart
MaxFaults == 1
\* sync calls started in a run where every call has the header's cap
MaxCappedRuns == 3
\* faults over a run in which the device changes hands
MaxOwnerFaults == 2

\* ------------------------------------------------------ program constants
AppMaxItems == 3
PageMaxItems == 10

Absent == "<absent>"
NoSession == "<no session>"

\* the titles the user types, one per capture, and the tag names
Titles == <<"a", "b", "c", "d">>
Blank == " "
AllTags == <<"home", "work", "urgent">>
TagLists == {SubSeq(AllTags, 1, n) : n \in 0..MaxTags}

SyncProcs == {"app", "page"}
Surfaces == {"save", "handleSave", "runQuickAdd"}

\* -------------------------------------------------------- remote errors
\* What the remote store hands back in `error`: a plain object with a message,
\* a Postgres code ("" when the request never reached Postgres) and an HTTP
\* status (0 when there was no response).
NetworkError == [message |-> "TypeError: Failed to fetch", code |-> "", status |-> 0]
ServerError == [message |-> "upstream unavailable", code |-> "", status |-> 503]
CheckViolation == [message |-> "violates check constraint", code |-> "23514", status |-> 400]
PermissionDenied == [message |-> "permission denied", code |-> "42501", status |-> 403]
\* The errors the node insert is given in the state machine.  A first attempt
\* fails offline (which the classifier queues) or on a constraint (which it
\* refuses); a replay fails on a server error.
FirstErrors == {NetworkError, CheckViolation}
ReplayErrors == {ServerError}

\* a missing error value (null, undefined)
Null == [null |-> TRUE]

\* JavaScript values that are no objects: a string, a number
StringValue(text) == [string |-> text]
NumberValue(n) == [number |-> n]
IsObject(value) == DOMAIN value \cap {"null", "string", "number"} = {}

\* !value
Falsy(value) == value \in {Null, StringValue(""), NumberValue(0)}

\* value.code and value.status, undefined on a value that has none
Code(value) == IF IsObject(value) /\ "code" \in DOMAIN value THEN value.code ELSE ""
Status(value) == IF IsObject(value) /\ "status" \in DOMAIN value THEN value.status ELSE 0

\* JSON.stringify of an error value
JsonStringify(error) ==
  IF error = Null THEN "null"
  ELSE IF "number" \in DOMAIN error THEN ToString(error.number)
  ELSE IF "string" \in DOMAIN error THEN "\"" \o error.string \o "\""
  ELSE "{code:" \o Code(error) \o ",message:" \o error.message \o "}"

\* errorToString: the message of an Error, a string itself, else the JSON text.
\* A remote error is a plain object; a wrapped error is an Error.
ErrorToString(error) ==
  IF "stage" \in DOMAIN error /\ error.message # ""
    THEN error.message
    ELSE IF "string" \in DOMAIN error THEN error.string
    ELSE JsonStringify(error)

WrapSaveError(stage, error) ==
  [message |-> ErrorToString(error), stage |-> stage, original |-> error]

ValidationCodes == {"23502", "23514", "22P02", "22001"}

\* a classifier that recognises no validation code
IsValidationErrorNever(error) == FALSE

IsValidationError(error) ==
  /\ ~Falsy(error)
  /\ IsObject(error)
  /\ Code(error) # ""
  /\ Code(error) \in ValidationCodes

\* the texts with 'failed to fetch', 'network' or 'offline' in them
MessageIsNetwork(error) ==
  ErrorToString(error) \in {ErrorToString(NetworkError), "offline"}

\* a classifier whose last line gives up instead of queueing
ShouldQueueErrorKnownOnly(error) ==
  IF Falsy(error) THEN FALSE
  ELSE IF IsValidationError(error) THEN FALSE
  ELSE IF MessageIsNetwork(error) THEN TRUE
  ELSE IF Status(error) >= 500 THEN TRUE
  ELSE FALSE

ShouldQueueError(error) ==
  IF Falsy(error) THEN FALSE
  ELSE IF IsValidationError(error) THEN FALSE
  ELSE IF MessageIsNetwork(error) THEN TRUE
  ELSE IF Status(error) >= 500 THEN TRUE
  ELSE TRUE

\* ------------------------------------------------------ createNodeWithTags
\* The remote store's answers to one createNodeWithTags call: for the node
\* insert, whether the row was stored and the error handed back (Null for
\* none; a stored row with a network error is a response lost on the way
\* back); for each tag, "ok" or the step that failed.
NodeResponses(allowPartialTags) ==
  {[applied |-> TRUE, error |-> Null],
   [applied |-> TRUE, error |-> IF allowPartialTags THEN ServerError ELSE NetworkError]}
    \cup {[applied |-> FALSE, error |-> e] :
            e \in IF allowPartialTags THEN ReplayErrors ELSE FirstErrors}
TagOutcomes == {"ok", "upsert", "link"}
TagError == ServerError
Responses(payload, allowPartialTags) ==
  {[node |-> n, tags |-> t] :
     n \in NodeResponses(allowPartialTags), t \in [1..Len(payload.tags) -> TagOutcomes]}

\* the loop over payload.tags, from tag i on
RECURSIVE TagLoop(_, _, _, _, _, _)
TagLoop(tags, outcomes, allowPartialTags, i, tagErrors, calls) ==
  IF i > Len(tags)
    THEN [threw |-> FALSE, error |-> Null, tagErrors |-> tagErrors, calls |-> calls]
    ELSE
      LET upsert == <<"upsert", tags[i]>>
          link == <<"link", tags[i]>>
      IN CASE outcomes[i] = "upsert" ->
                IF allowPartialTags
                  THEN TagLoop(tags, outcomes, allowPartialTags, i + 1,
                               Append(tagErrors, TagError.message),
                               Append(calls, upsert))
                  ELSE [threw |-> TRUE, error |-> WrapSaveError("tag", TagError),
                        tagErrors |-> tagErrors, calls |-> Append(calls, upsert)]
           [] outcomes[i] = "link" ->
                IF allowPartialTags
                  THEN TagLoop(tags, outcomes, allowPartialTags, i + 1,
                               Append(tagErrors, TagError.message),
                               calls \o <<upsert, link>>)
                  ELSE [threw |-> TRUE, error |-> WrapSaveError("tag", TagError),
                        tagErrors |-> tagErrors, calls |-> calls \o <<upsert, link>>]
           [] OTHER ->
                TagLoop(tags, outcomes, allowPartialTags, i + 1, tagErrors,
                        calls \o <<upsert, link>>)

\* a write that never tolerates a tag failure
CreateNodeWithTagsStrict(payload, allowPartialTags, resp) ==
  IF resp.node.error # Null
    THEN [threw |-> TRUE, error |-> WrapSaveError("node", resp.node.error),
          tagErrors |-> <<>>, calls |-> <<<<"insert", payload.title>>>>,
          stored |-> resp.node.applied]
    ELSE [stored |-> TRUE] @@
         TagLoop(payload.tags, resp.tags, FALSE, 1, <<>>, <<<<"insert", payload.title>>>>)

\* a write that tolerates every tag failure
CreateNodeWithTagsTolerant(payload, allowPartialTags, resp) ==
  IF resp.node.error # Null
    THEN [threw |-> TRUE, error |-> WrapSaveError("node", resp.node.error),
          tagErrors |-> <<>>, calls |-> <<<<"insert", payload.title>>>>,
          stored |-> resp.node.applied]
    ELSE [stored |-> TRUE] @@
         TagLoop(payload.tags, resp.tags, TRUE, 1, <<>>, <<<<"insert", payload.title>>>>)

\* a write that goes on to the tags whatever the node insert answered
CreateNodeWithTagsPastNodeError(payload, allowPartialTags, resp) ==
  [stored |-> resp.node.applied] @@
  TagLoop(payload.tags, resp.tags, allowPartialTags, 1, <<>>,
          <<<<"insert", payload.title>>>>)

\* a write that stops after the first tag
CreateNodeWithTagsFirstTagOnly(payload, allowPartialTags, resp) ==
  IF resp.node.error # Null
    THEN [threw |-> TRUE, error |-> WrapSaveError("node", resp.node.error),
          tagErrors |-> <<>>, calls |-> <<<<"insert", payload.title>>>>,
          stored |-> resp.node.applied]
    ELSE [stored |-> TRUE] @@
         TagLoop(IF payload.tags = <<>> THEN <<>> ELSE <<payload.tags[1]>>,
                 resp.tags, allowPartialTags, 1, <<>>,
                 <<<<"insert", payload.title>>>>)

\* The call's outcome: whether it threw and what, the tag errors collected,
\* the remote calls made, and whether the node row was stored.
CreateNodeWithTags(payload, allowPartialTags, resp) ==
  IF resp.node.error # Null
    THEN [threw |-> TRUE, error |-> WrapSaveError("node", resp.node.error),
          tagErrors |-> <<>>, calls |-> <<<<"insert", payload.title>>>>,
          stored |-> resp.node.applied]
    ELSE [stored |-> TRUE] @@
         TagLoop(payload.tags, resp.tags, allowPartialTags, 1, <<>>,
                 <<<<"insert", payload.title>>>>)

\* The nodes table after the call: a stored insert always adds a row (the id
\* is a fresh serial; no column of the payload is unique).  A row is held as
\* its owner, its title and its rank among the rows with that owner and title.
InsertNode(table, userId, payload, resp) ==
  IF resp.node.applied
    THEN table \cup
         {[owner_id |-> userId, title |-> payload.title,
           nth |-> 1 + Cardinality({row \in table : /\ row.owner_id = userId
                                                     /\ row.title = payload.title})]}
    ELSE table

\* the tag calls of one createNodeWithTags call that the remote store refused
RefusedTags(payload, r, resp) ==
  {<<payload.title, payload.tags[i]>> :
     i \in {j \in 1..Len(payload.tags) :
              /\ resp.tags[j] # "ok"
              /\ \E c \in 1..Len(r.calls) : r.calls[c] = <<"upsert", payload.tags[j]>>}}

\* a response is lost when the row was stored and an error came back
IsLost(resp) == resp.node.applied /\ resp.node.error # Null

\* ------------------------------------------------------------------ state
VARIABLES
  storage,     \* localStorage[STORAGE_KEY]: NoItem or the JSON text of the queue
  events,      \* QUEUE_EVENT events dispatched so far
  queueCount,  \* App's queueCount state, set by its handler of QUEUE_EVENT
  returned,    \* history: what enqueuePayload returned, if it wrote the queue last
  refused,     \* history: the tag calls the remote store refused, as <<title, tag>>
  warned,      \* the ids of the entries sync calls logged a console.warn for
  nodes,       \* the remote nodes table
  session,     \* the signed-in user's id, or NoSession
  nextId,      \* ids handed out by generateId so far
  now,         \* the last value Date.now() returned
  sync,        \* per runSync owner: the locals of its syncOfflineQueue call
  inflight,    \* app: syncingRef.current; page: the page's `syncing` state
  result,      \* what the last syncOfflineQueue call to return returned
  batch,       \* history: the entries that call attempted, by how their write ended
  cap,         \* the interactive capture: handler, form, payload, message, error caught
  removedLog,  \* history: the ids of the entries sync calls removed from storage
  syncRuns,    \* syncOfflineQueue calls started so far
  records,     \* captures submitted so far
  faults,      \* faults of the environment so far
  call         \* a function called on its own: its arguments and what it gave

vars == <<storage, events, queueCount, returned, refused, warned, nodes, session, nextId, now, sync, inflight, result, batch, cap,
          removedLog, syncRuns, records, faults, call>>

\* ------------------------------------------------------- offlineQueue.ts
\* localStorage.getItem(STORAGE_KEY) when the key was never set
NoItem == [item |-> "null"]

\* Numbers are held as their decimal text.  JSON.stringify writes a number that
\* is not finite as null, and leaves out a property whose value is undefined.
NaN == "NaN"
JsonNull == "null"
JsonNumber(n) == IF n = NaN THEN JsonNull ELSE n

StringifyPayload(payload) == [payload EXCEPT !.duration_minutes = JsonNumber(@)]

\* A value of the stored JSON text is held with its type: a record with one
\* field, named after the type.
AsNull == [null |-> "null"]
AsString(s) == [string |-> s]
AsNumber(n) == [number |-> n]
AsObject(fields) == [object |-> fields]
AsArray(elements) == [array |-> elements]
Undefined == [undefined |-> "undefined"]

TypeOf(value) == CHOOSE t \in DOMAIN value : TRUE

\* value[name]: undefined where the value has no such property
Field(value, name) ==
  IF TypeOf(value) = "object" /\ name \in DOMAIN value.object
    THEN value.object[name]
    ELSE Undefined

StringifyItem(item) ==
  LET kept == [id |-> AsString(item.id), createdAt |-> AsNumber(item.createdAt),
               payload |-> StringifyPayload(item.payload),
               attempts |-> AsNumber(item.attempts)]
  IN AsObject(IF item.lastError = Absent
                THEN kept
                ELSE kept @@ [lastError |-> item.lastError])

\* JSON.stringify(items)
StringifyQueue(items) == [text |-> [i \in 1..Len(items) |-> StringifyItem(items[i])]]

\* the stored values that are not the text of an array: the empty string, a
\* text JSON.parse throws on, the text of another JSON value
EmptyText == [empty |-> ""]
Unparsable == [garbage |-> "{oops"]
TextOf(value) == [value |-> value]

\* a filter that keeps nothing
IsQueueItemNever(value) == FALSE

\* isQueueItem: an object (typeof null and of an array is 'object' too, null is
\* falsy) whose id is a string and whose createdAt and attempts are numbers
IsQueueItem(value) ==
  IF TypeOf(value) \notin {"object", "array"}
    THEN FALSE
    ELSE /\ TypeOf(Field(value, "id")) = "string"
         /\ TypeOf(Field(value, "createdAt")) = "number"
         /\ TypeOf(Field(value, "attempts")) = "number"

\* a parsed object: a property the text does not have reads as undefined
ParseItem(value) ==
  [id |-> value.object.id.string, createdAt |-> value.object.createdAt.number,
   payload |-> IF "payload" \in DOMAIN value.object THEN value.object.payload ELSE Absent,
   attempts |-> value.object.attempts.number,
   lastError |-> IF "lastError" \in DOMAIN value.object
                   THEN value.object.lastError ELSE Absent]

\* readQueue: [] for no item and for the empty string (!raw), [] when
\* JSON.parse throws, [] when the parsed value is not an array, else the
\* parsed array filtered by isQueueItem
ReadQueue ==
  IF storage = NoItem \/ storage = EmptyText
    THEN <<>>
    ELSE IF "garbage" \in DOMAIN storage
      THEN <<>>
      ELSE IF "text" \notin DOMAIN storage
        THEN <<>>
        ELSE LET parsed == SelectSeq(storage.text, IsQueueItem)
             IN [i \in 1..Len(parsed) |-> ParseItem(parsed[i])]

GetQueue == ReadQueue

GetQueueCount == Len(ReadQueue)

\* writeQueue: store the JSON text, then emitQueueUpdate; dispatchEvent runs
\* App's handler before it returns, and the handler reads getQueueCount()
WriteQueue(items) ==
  /\ storage' = StringifyQueue(items)
  /\ events' = events + 1
  /\ queueCount' = GetQueueCount'

\* String.prototype.trim on a string held as a sequence of characters
RECURSIVE TrimStart(_)
TrimStart(str) ==
  IF str # <<>> /\ Head(str) = Blank THEN TrimStart(Tail(str)) ELSE str

RECURSIVE TrimEnd(_)
TrimEnd(str) ==
  IF str # <<>> /\ str[Len(str)] = Blank
    THEN TrimEnd(SubSeq(str, 1, Len(str) - 1))
    ELSE str

Trim(str) == TrimEnd(TrimStart(str))

\* the entry enqueuePayload builds: a fresh id, the current time, attempts 0,
\* and lastError only when a non-empty one is given
NewItem(id, createdAt, payload, lastError) ==
  [id |-> id, createdAt |-> createdAt, payload |-> payload, attempts |-> 0,
   lastError |-> IF lastError # "" THEN lastError ELSE Absent]

\* an enqueuePayload that builds the entry and stores the queue without it
EnqueuePayloadDropped(payload, lastError, createdAt) ==
  /\ nextId' = nextId + 1
  /\ now' = createdAt
  /\ WriteQueue(ReadQueue)
  /\ returned' = NewItem(nextId + 1, createdAt, payload, lastError)

\* an enqueuePayload whose ids are all the same
EnqueuePayloadFixedId(payload, lastError, createdAt) ==
  /\ nextId' = nextId + 1
  /\ now' = createdAt
  /\ WriteQueue(Append(ReadQueue, NewItem(1, createdAt, payload, lastError)))
  /\ returned' = NewItem(1, createdAt, payload, lastError)

\* enqueuePayload: read the stored queue, push the new entry, store the result
EnqueuePayload(payload, lastError, createdAt) ==
  /\ nextId' = nextId + 1
  /\ now' = createdAt
  /\ WriteQueue(Append(ReadQueue, NewItem(nextId + 1, createdAt, payload, lastError)))
  /\ returned' = NewItem(nextId + 1, createdAt, payload, lastError)

\* queue.filter((queued) => queued.id !== item.id)
RemoveById(queue, id) == SelectSeq(queue, LAMBDA queued : queued.id # id)

\* queue.map: the entry with this id gets attempts + 1 and the error message
UpdateAttempt(queue, id, message) ==
  [i \in 1..Len(queue) |->
     IF queue[i].id = id
       THEN [queue[i] EXCEPT !.attempts = @ + 1, !.lastError = message]
       ELSE queue[i]]

\* a loop that breaks one item late
MaxItemsOffByOne(p) == IF p = "app" THEN AppMaxItems + 1 ELSE PageMaxItems

\* a loop without the break
MaxItemsUncapped(p) == PageMaxItems

MaxItems(p) == IF p = "app" THEN AppMaxItems ELSE PageMaxItems

IdleSync ==
  [pc |-> "idle", userId |-> NoSession, items |-> <<>>, queue |-> <<>>,
   idx |-> 0, attempted |-> 0, synced |-> 0, threw |-> {}]

NoBatch == [succeeded |-> {}, threw |-> {}]

NoResult == [attempted |-> 0, synced |-> 0, remaining |-> 0]

IdleCap ==
  [pc |-> "idle", title |-> <<>>, tags |-> <<>>, duration |-> "",
   payload |-> Null, userId |-> NoSession, message |-> "none", caught |-> Null]

NoCall == [fn |-> "none"]

Init ==
  /\ storage = NoItem
  /\ events = 0
  /\ queueCount = GetQueueCount
  /\ returned = Null
  /\ refused = {}
  /\ warned = {}
  /\ nodes = {}
  /\ session = "u1"
  /\ nextId = 0
  /\ now = 0
  /\ sync = [p \in SyncProcs |-> IdleSync]
  /\ inflight = [p \in SyncProcs |-> FALSE]
  /\ result = NoResult
  /\ batch = NoBatch
  /\ cap = IdleCap
  /\ removedLog = {}
  /\ syncRuns = 0
  /\ records = 0
  /\ faults = 0
  /\ call = NoCall

\* -------------------------------------------------------------- runSync
\* the finally block of runSync: the guard is released
Finish(p) ==
  /\ sync' = [sync EXCEPT ![p] = IdleSync]
  /\ inflight' = [inflight EXCEPT ![p] = FALSE]

\* runSync up to its first await, inside syncOfflineQueue: a request that an
\* early return turns away changes nothing
RunSyncBody(p, busy, idle) ==
  IF busy \/ idle
    THEN UNCHANGED <<sync, inflight, syncRuns>>
    ELSE /\ inflight' = [inflight EXCEPT ![p] = TRUE]
         /\ sync' = [sync EXCEPT ![p] = [IdleSync EXCEPT !.pc = "getSession"]]
         /\ syncRuns' = syncRuns + 1

\* a runSync that does not look at syncingRef
AppRunSyncBodyUnguarded(signedIn) ==
  RunSyncBody("app", FALSE, ~signedIn \/ GetQueueCount = 0)

\* App.tsx runSync: signed out, a call in flight, or nothing queued refuse it
AppRunSyncBody(signedIn) ==
  RunSyncBody("app", signedIn /\ inflight["app"], ~signedIn \/ GetQueueCount = 0)

\* the effect that runs on sign-in, its interval timer and the header's
\* "Sync now" button, all live only while signed in
AppRunSync(trigger) ==
  /\ trigger \in {"signin", "timer", "header"}
  /\ session # NoSession
  /\ AppRunSyncBody(session # NoSession)
  /\ UNCHANGED <<call, storage, events, queueCount, returned, refused, warned, nodes, session, nextId, now, result, batch, cap, removedLog,
                 records, faults>>

\* the capture page's runSync, behind the page's own `syncing` state
PageRunSync ==
  /\ RunSyncBody("page", inflight["page"], GetQueueCount = 0)
  /\ UNCHANGED <<call, storage, events, queueCount, returned, refused, warned, nodes, session, nextId, now, result, batch, cap, removedLog,
                 records, faults>>

\* ------------------------------------------------------ syncOfflineQueue
\* a syncOfflineQueue that does not look at the session
SyncSessionUnchecked(p) ==
  /\ sync[p].pc = "getSession"
  /\ IF Len(ReadQueue) = 0
       THEN /\ result' = [attempted |-> 0, synced |-> 0, remaining |-> 0]
            /\ batch' = NoBatch
            /\ Finish(p)
       ELSE /\ sync' = [sync EXCEPT ![p] =
                 [pc |-> "write", userId |-> session, items |-> ReadQueue,
                  queue |-> ReadQueue, idx |-> 1, attempted |-> 1, synced |-> 0,
                  threw |-> {}]]
            /\ UNCHANGED <<result, batch, inflight>>
  /\ UNCHANGED <<call, storage, events, queueCount, returned, refused, warned, nodes, session, nextId,
                 now, cap, removedLog, syncRuns, records, faults>>

\* after getSession: the two no-op returns, else the snapshot is taken and the
\* first item's write is issued
SyncSession(p) ==
  /\ sync[p].pc = "getSession"
  /\ IF session = NoSession
       THEN /\ result' = [attempted |-> 0, synced |-> 0,
                           remaining |-> GetQueueCount]
            /\ batch' = NoBatch
            /\ Finish(p)
       ELSE IF Len(ReadQueue) = 0
         THEN /\ result' = [attempted |-> 0, synced |-> 0, remaining |-> 0]
              /\ batch' = NoBatch
              /\ Finish(p)
         ELSE /\ sync' = [sync EXCEPT ![p] =
                   [pc |-> "write", userId |-> session, items |-> ReadQueue,
                    queue |-> ReadQueue, idx |-> 1, attempted |-> 1, synced |-> 0,
                    threw |-> {}]]
              /\ UNCHANGED <<result, batch, inflight>>
  /\ UNCHANGED <<call, storage, events, queueCount, returned, refused, warned, nodes, session, nextId, now, cap, removedLog,
                 syncRuns, records, faults>>

\* a loop that drops the item whether or not its write threw
AfterWriteAlwaysDrops(queue, item, r) == RemoveById(queue, item.id)

\* a loop that counts a success and leaves its entry in the queue
AfterWriteNeverDrops(queue, item, r) ==
  IF r.threw
    THEN UpdateAttempt(queue, item.id, ErrorToString(r.error))
    ELSE queue

\* the local queue after one item's write: dropped on success, attempts and
\* lastError updated on a throw
AfterWrite(queue, item, r) ==
  IF r.threw
    THEN UpdateAttempt(queue, item.id, ErrorToString(r.error))
    ELSE RemoveById(queue, item.id)

Ids(queue) == {queue[i].id : i \in 1..Len(queue)}

\* the continuation of one item's write; after the last item of the batch the
\* local queue is stored and the call returns
SyncWriteDone(p) ==
  /\ sync[p].pc = "write"
  /\ LET s == sync[p]
         item == s.items[s.idx]
     IN \E resp \in Responses(item.payload, TRUE) :
          LET r == CreateNodeWithTags(item.payload, TRUE, resp)
              queue2 == AfterWrite(s.queue, item, r)
              synced2 == IF r.threw THEN s.synced ELSE s.synced + 1
              threw2 == IF r.threw THEN s.threw \cup {item.id} ELSE s.threw
              tried == {[id |-> s.items[i].id, attempts |-> s.items[i].attempts] :
                          i \in 1..s.idx}
              more == s.idx < Len(s.items) /\ s.attempted < MaxItems(p)
          IN /\ nodes' = InsertNode(nodes, s.userId, item.payload, resp)
             /\ refused' = refused \cup RefusedTags(item.payload, r, resp)
             /\ warned' = IF ~r.threw /\ Len(r.tagErrors) > 0
                             THEN warned \cup {item.id} ELSE warned
             /\ faults' = IF IsLost(resp) THEN faults + 1 ELSE faults
             /\ IF more
                  THEN /\ sync' = [sync EXCEPT ![p] =
                            [s EXCEPT !.queue = queue2, !.synced = synced2,
                                      !.threw = threw2,
                                      !.idx = @ + 1, !.attempted = @ + 1]]
                       /\ UNCHANGED <<storage, events, queueCount, returned, result, batch, inflight,
                                      removedLog>>
                  ELSE /\ WriteQueue(queue2)
                       /\ returned' = Null
                       /\ result' = [attempted |-> s.attempted,
                                      synced |-> synced2, remaining |-> Len(queue2)]
                       /\ batch' = [succeeded |-> {e \in tried : e.id \notin threw2},
                                     threw |-> {e \in tried : e.id \in threw2}]
                       /\ removedLog' = removedLog \cup
                            {e.id : e \in {t \in tried : t.id \notin threw2}}
                       /\ Finish(p)
  /\ UNCHANGED <<call, session, nextId, now, cap, syncRuns, records>>

\* ------------------------------------------------- interactive capture
\* Date.now() when a capture is queued: the wall clock, one tick after the
\* reading before it or, the clock having been set back, one tick before it
DateNow == {t \in {now - 1, now + 1} : t >= 0}

\* what the duration field of save() holds: nothing, or Number(text)
\* of a text that is no number; handleSave and runQuickAdd have no such field
Durations == {"", NaN}

\* what the user may have typed as the next capture: nothing but a blank, or
\* the title with blanks around it and some tags, or (save()) a duration
Forms(surface, k) ==
  {[title |-> <<Blank>>, tags |-> <<>>, duration |-> ""]}
    \cup {[title |-> <<Blank, Titles[k], Blank>>, tags |-> tags, duration |-> ""] :
            tags \in TagLists}
    \cup {[title |-> <<Blank, Titles[k], Blank>>, tags |-> <<>>, duration |-> d] :
            d \in IF surface = "save" THEN Durations \ {""} ELSE {}}

\* the submit guard of handleSave (canSubmit) and runQuickAdd (quickAddCanSubmit)
CanSubmit(title) == Trim(title) # <<>>

\* a capture handler up to its first await: the capture page's save() awaits
\* the session first; handleSave and runQuickAdd refuse a blank title at once
SaveBegin(surface, title, tags, duration) ==
  /\ cap.pc = "idle"
  /\ IF surface # "save" /\ ~CanSubmit(title)
       THEN cap' = [IdleCap EXCEPT !.title = title, !.tags = tags, !.duration = duration, !.message = "error"]
       ELSE cap' = [IdleCap EXCEPT !.title = title, !.tags = tags, !.duration = duration, !.pc = "getSession"]
  /\ records' = IF Trim(title) # <<>> THEN records + 1 ELSE records
  /\ UNCHANGED <<call, storage, events, queueCount, returned, refused, warned, nodes, session, nextId, now, sync, inflight, result, batch,
                 removedLog, syncRuns, faults>>

\* a handler that sends whatever title the form holds
SaveSessionAnyTitle ==
  /\ cap.pc = "getSession"
  /\ IF session = NoSession
       THEN cap' = [IdleCap EXCEPT !.title = cap.title, !.tags = cap.tags, !.duration = cap.duration,
                                   !.message = "error"]
       ELSE cap' = [IdleCap EXCEPT !.pc = "write", !.userId = session,
                                   !.title = cap.title, !.tags = cap.tags, !.duration = cap.duration,
                                   !.payload =
                                     [title |-> Trim(cap.title), tags |-> cap.tags,
                                      duration_minutes |->
                                        IF cap.duration # "" THEN cap.duration
                                                           ELSE JsonNull]]
  /\ UNCHANGED <<call, storage, events, queueCount, returned, refused, warned, nodes, session, nextId, now, sync, inflight, result, batch,
                 removedLog, syncRuns, records, faults>>

\* a handler that queues the record before it tries the write
SaveSessionQueuesFirst ==
  /\ cap.pc = "getSession"
  /\ IF session = NoSession \/ Trim(cap.title) = <<>>
       THEN /\ cap' = [IdleCap EXCEPT !.title = cap.title, !.tags = cap.tags,
                                      !.duration = cap.duration, !.message = "error"]
            /\ UNCHANGED <<storage, events, queueCount, returned, nextId, now>>
       ELSE /\ cap' = [IdleCap EXCEPT !.pc = "write", !.userId = session,
                                      !.title = cap.title, !.tags = cap.tags,
                                      !.duration = cap.duration,
                                      !.payload =
                                        [title |-> Trim(cap.title), tags |-> cap.tags,
                                         duration_minutes |->
                                           IF cap.duration # "" THEN cap.duration
                                                              ELSE JsonNull]]
            /\ EnqueuePayload(cap'.payload, "", now + 1)
  /\ UNCHANGED <<call, refused, warned, nodes, session, sync, inflight, result, batch,
                 removedLog, syncRuns, records, faults>>

\* after getSession: no session or (save()) a blank title ends the handler with
\* an error; else the payload is built and the non-tolerant write is issued
SaveSession ==
  /\ cap.pc = "getSession"
  /\ IF session = NoSession \/ Trim(cap.title) = <<>>
       THEN cap' = [IdleCap EXCEPT !.title = cap.title, !.tags = cap.tags, !.duration = cap.duration,
                                   !.message = "error"]
       ELSE cap' = [IdleCap EXCEPT !.pc = "write", !.userId = session,
                                   !.title = cap.title, !.tags = cap.tags, !.duration = cap.duration,
                                   !.payload =
                                     [title |-> Trim(cap.title), tags |-> cap.tags,
                                      duration_minutes |->
                                        IF cap.duration # "" THEN cap.duration
                                                           ELSE JsonNull]]
  /\ UNCHANGED <<call, storage, events, queueCount, returned, refused, warned, nodes, session, nextId, now, sync, inflight, result, batch,
                 removedLog, syncRuns, records, faults>>

\* a catch block that never queues
ShouldQueueNever(saveError) == FALSE

\* a catch block that does not look at the stage
ShouldQueueAnyStage(saveError) ==
  ShouldQueueError(IF saveError.original # Null THEN saveError.original ELSE saveError)

\* the catch block's decision: a tag-stage error is never queued, any other
\* is queued unless the classifier calls it a validation error
ShouldQueue(saveError) ==
  /\ saveError.stage # "tag"
  /\ ShouldQueueError(IF saveError.original # Null THEN saveError.original ELSE saveError)

\* the continuation of the interactive write: saved, queued, or an error shown
SaveDone ==
  /\ cap.pc = "write"
  /\ \E resp \in Responses(cap.payload, FALSE), createdAt \in DateNow :
       LET r == CreateNodeWithTags(cap.payload, FALSE, resp)
       IN /\ nodes' = InsertNode(nodes, cap.userId, cap.payload, resp)
          /\ refused' = refused \cup RefusedTags(cap.payload, r, resp)
          /\ faults' = faults + (IF IsLost(resp) THEN 1 ELSE 0)
                             + (IF r.threw /\ ShouldQueue(r.error) /\ createdAt < now
                                  THEN 1 ELSE 0)
          /\ IF ~r.threw
               THEN /\ cap' = [IdleCap EXCEPT !.message = "success"]
                    /\ UNCHANGED <<storage, events, queueCount, returned, nextId, now>>
               ELSE IF ShouldQueue(r.error)
                 THEN /\ EnqueuePayload(cap.payload, ErrorToString(r.error), createdAt)
                      /\ cap' = [IdleCap EXCEPT !.message = "offline", !.caught = r.error]
                 ELSE /\ cap' = [IdleCap EXCEPT !.title = cap.title, !.tags = cap.tags, !.duration = cap.duration,
                                               !.message = "error", !.caught = r.error]
                      /\ UNCHANGED <<storage, events, queueCount, returned, nextId, now>>
  /\ UNCHANGED <<call, warned, session, sync, inflight, result, batch, removedLog, syncRuns,
                 records>>

\* ------------------------------------------------------ session, restart
\* signOut in App.tsx, or the session expiring: handlers in flight go on
SignOut ==
  /\ session # NoSession
  /\ session' = NoSession
  /\ faults' = faults + 1
  /\ UNCHANGED <<call, storage, events, queueCount, returned, refused, warned, nodes, nextId, now, sync, inflight, result, batch, cap,
                 removedLog, syncRuns, records>>

\* the user signs in again on the login page
SignIn ==
  /\ session = NoSession
  /\ session' = "u1"
  /\ UNCHANGED <<call, storage, events, queueCount, returned, refused, warned, nodes, nextId, now, sync, inflight, result, batch, cap,
                 removedLog, syncRuns, records, faults>>

\* the response a node insert would have had, had its caller lived to see it
Unseen == [node |-> [applied |-> TRUE, error |-> NetworkError], tags |-> <<>>]

\* the node inserts awaited right now, by who awaits them
InFlight ==
  {p \in SyncProcs : sync[p].pc = "write"} \cup {h \in {"capture"} : cap.pc = "write"}

InFlightUser(h) == IF h = "capture" THEN cap.userId ELSE sync[h].userId

InFlightPayload(h) ==
  IF h = "capture" THEN cap.payload ELSE sync[h].items[sync[h].idx].payload

RECURSIVE InsertAll(_, _)
InsertAll(table, handlers) ==
  IF handlers = {}
    THEN table
    ELSE LET h == CHOOSE x \in handlers : TRUE
         IN InsertAll(InsertNode(table, InFlightUser(h), InFlightPayload(h), Unseen),
                      handlers \ {h})

\* The page is reloaded or the app closed and opened again: every handler and
\* all in-memory state are gone, localStorage and the session stay.  A node
\* insert that was in flight may still have reached the remote store.
Restart ==
  /\ sync' = [p \in SyncProcs |-> IdleSync]
  /\ inflight' = [p \in SyncProcs |-> FALSE]
  /\ cap' = IdleCap
  /\ result' = NoResult
  /\ \E applied \in SUBSET InFlight :
       nodes' = InsertAll(nodes, applied)
  /\ queueCount' = GetQueueCount
  /\ faults' = faults + 1
  /\ UNCHANGED <<call, storage, events, returned, refused, warned, session, nextId, now, batch,
                 removedLog, syncRuns, records>>

\* the bounds: no further capture, sync call or fault once its count
\* is reached
Bounded ==
  /\ records' <= MaxRecords
  /\ syncRuns' <= MaxSyncRuns
  /\ faults' <= MaxFaults

Next ==
  \/ \E trigger \in {"signin", "timer", "header"} : AppRunSync(trigger) /\ Bounded
  \/ PageRunSync /\ Bounded
  \/ \E p \in SyncProcs : SyncSession(p) /\ Bounded
  \/ \E p \in SyncProcs : SyncWriteDone(p) /\ Bounded
  \/ \E surface \in Surfaces : \E form \in Forms(surface, records + 1) :
       SaveBegin(surface, form.title, form.tags, form.duration) /\ Bounded
  \/ SaveSession /\ Bounded
  \/ SaveDone /\ Bounded
  \/ SignOut /\ Bounded
  \/ SignIn /\ Bounded
  \/ Restart /\ Bounded

Spec == Init /\ [][Next]_vars

\* ------------------------------------------- a queue longer than a batch
\* The state after AppMaxItems + 1 captures failed offline one after the other,
\* with every course the wall clock may have taken between them; from there
\* only sync calls run.
BatchLen == AppMaxItems + 1

BatchClocks ==
  {c \in [1..BatchLen -> 0..BatchLen] :
     /\ c[1] = 1
     /\ \A k \in 1..(BatchLen - 1) : c[k + 1] \in {c[k] - 1, c[k] + 1}}

OfflineError == WrapSaveError("node", NetworkError)

BatchQueue(c) ==
  [k \in 1..BatchLen |->
     NewItem(k, c[k], [title |-> <<Titles[k]>>, tags |-> <<>>, duration_minutes |-> JsonNull],
             ErrorToString(OfflineError))]

InitBatch ==
  \E c \in BatchClocks :
    /\ storage = StringifyQueue(BatchQueue(c))
    /\ events = BatchLen
    /\ queueCount = BatchLen
    /\ returned = BatchQueue(c)[BatchLen]
    /\ refused = {}
    /\ warned = {}
    /\ nodes = {}
    /\ session = "u1"
    /\ nextId = BatchLen
    /\ now = c[BatchLen]
    /\ sync = [p \in SyncProcs |-> IdleSync]
    /\ inflight = [p \in SyncProcs |-> FALSE]
    /\ result = NoResult
    /\ batch = NoBatch
    /\ cap = [IdleCap EXCEPT !.message = "offline", !.caught = OfflineError]
    /\ removedLog = {}
    /\ syncRuns = 0
    /\ records = BatchLen
    /\ faults = Cardinality({k \in 1..(BatchLen - 1) : c[k + 1] < c[k]})
    /\ call = NoCall

BoundedBatch == syncRuns' <= MaxBatchRuns

NextBatch ==
  \/ \E trigger \in {"signin", "timer", "header"} : AppRunSync(trigger) /\ BoundedBatch
  \/ PageRunSync /\ BoundedBatch
  \/ \E p \in SyncProcs : SyncSession(p) /\ BoundedBatch
  \/ \E p \in SyncProcs : SyncWriteDone(p) /\ BoundedBatch

SpecBatch == InitBatch /\ [][NextBatch]_vars

\* ------------------------------------------ every call with the same cap
\* The same queue, with the capture page closed: every sync call is App's, with
\* maxItems = AppMaxItems, one at a time behind syncingRef.
BoundedCapped == syncRuns' <= MaxCappedRuns

NextCapped ==
  \/ \E trigger \in {"signin", "timer", "header"} : AppRunSync(trigger) /\ BoundedCapped
  \/ SyncSession("app") /\ BoundedCapped
  \/ SyncWriteDone("app") /\ BoundedCapped

SpecCapped == InitBatch /\ [][NextCapped]_vars

\* ------------------------------------------------ a device that changes hands
\* The user whose captures are queued, and another user of the same device.
CapturedBy == "u1"
OtherUser == "u2"

\* the other user signs in on the login page: localStorage is the browser's,
\* whoever is signed in
SignInOther ==
  /\ session = NoSession
  /\ session' = OtherUser
  /\ UNCHANGED <<call, storage, events, queueCount, returned, refused, warned, nodes, nextId, now, sync, inflight, result, batch, cap,
                 removedLog, syncRuns, records, faults>>

\* the queue after MaxRecords captures of CapturedBy failed offline
OwnerQueue ==
  [k \in 1..MaxRecords |->
     NewItem(k, k, [title |-> <<Titles[k]>>, tags |-> <<>>, duration_minutes |-> JsonNull],
             ErrorToString(OfflineError))]

InitOwner ==
  /\ storage = StringifyQueue(OwnerQueue)
  /\ events = MaxRecords
  /\ queueCount = MaxRecords
  /\ returned = OwnerQueue[MaxRecords]
  /\ refused = {}
  /\ warned = {}
  /\ nodes = {}
  /\ session = CapturedBy
  /\ nextId = MaxRecords
  /\ now = MaxRecords
  /\ sync = [p \in SyncProcs |-> IdleSync]
  /\ inflight = [p \in SyncProcs |-> FALSE]
  /\ result = NoResult
  /\ batch = NoBatch
  /\ cap = [IdleCap EXCEPT !.message = "offline", !.caught = OfflineError]
  /\ removedLog = {}
  /\ syncRuns = 0
  /\ records = MaxRecords
  /\ faults = 0
  /\ call = NoCall

BoundedOwner ==
  /\ syncRuns' <= MaxBatchRuns
  /\ faults' <= MaxOwnerFaults

NextOwner ==
  \/ \E trigger \in {"signin", "timer", "header"} : AppRunSync(trigger) /\ BoundedOwner
  \/ PageRunSync /\ BoundedOwner
  \/ \E p \in SyncProcs : SyncSession(p) /\ BoundedOwner
  \/ \E p \in SyncProcs : SyncWriteDone(p) /\ BoundedOwner
  \/ SignOut /\ BoundedOwner
  \/ SignIn /\ BoundedOwner
  \/ SignInOther /\ BoundedOwner

SpecOwner == InitOwner /\ [][NextOwner]_vars

\* ------------------------------------------------------ quickAddParse.ts
\* A string is the sequence of its characters.
UpperCase ==
  <<"A", "B", "C", "D", "E", "F", "G", "H", "I", "J", "K", "L", "M",
    "N", "O", "P", "Q", "R", "S", "T", "U", "V", "W", "X", "Y", "Z">>

LowerCase ==
  <<"a", "b", "c", "d", "e", "f", "g", "h", "i", "j", "k", "l", "m",
    "n", "o", "p", "q", "r", "s", "t", "u", "v", "w", "x", "y", "z">>

Lower(c) ==
  IF \E i \in 1..Len(UpperCase) : UpperCase[i] = c
    THEN LowerCase[CHOOSE i \in 1..Len(UpperCase) : UpperCase[i] = c]
    ELSE c

ToLowerCase(str) == [i \in 1..Len(str) |-> Lower(str[i])]

StartsWith(str, prefix) ==
  Len(str) >= Len(prefix) /\ SubSeq(str, 1, Len(prefix)) = prefix

\* str.slice(n)
Slice(str, n) == SubSeq(str, n + 1, Len(str))

\* the characters of /[.,;:!?]+$/
Punctuation == {".", ",", ";", ":", "!", "?"}

RECURSIVE StripTrailingPunctuation(_)
StripTrailingPunctuation(value) ==
  IF value # <<>> /\ value[Len(value)] \in Punctuation
    THEN StripTrailingPunctuation(SubSeq(value, 1, Len(value) - 1))
    ELSE value

NormalizeTag(raw) == StripTrailingPunctuation(ToLowerCase(Trim(raw)))

NormalizeTokenValue(raw) == StripTrailingPunctuation(Trim(raw))

Digits == {"0", "1", "2", "3", "4", "5", "6", "7", "8", "9"}

\* /^\d{4}-\d{2}-\d{2}$/
IsValidDueDate(value) ==
  /\ Len(value) = 10
  /\ \A i \in {1, 2, 3, 4, 6, 7, 9, 10} : value[i] \in Digits
  /\ value[5] = "-"
  /\ value[8] = "-"

STATUSES ==
  {<<"i", "n", "b", "o", "x">>, <<"a", "c", "t", "i", "v", "e">>,
   <<"w", "a", "i", "t", "i", "n", "g">>, <<"s", "o", "m", "e", "d", "a", "y">>,
   <<"d", "o", "n", "e">>, <<"a", "r", "c", "h", "i", "v", "e", "d">>}

Idea == <<"i", "d", "e", "a">>
Task == <<"t", "a", "s", "k">>

Hash == <<"#">>
At == <<"@">>
Bang == <<"!">>
TypePrefix == <<"t", "y", "p", "e", ":">>
DuePrefix == <<"d", "u", "e", ":">>
TitlePrefix == <<"t", "i", "t", "l", "e", ":">>

IsStatusToken(token) ==
  IF ~StartsWith(token, Bang) \/ Len(token) <= 1
    THEN FALSE
    ELSE NormalizeTokenValue(ToLowerCase(Slice(token, 1))) \in STATUSES

\* a title: span that a !status token does not end
IsDelimiterTokenNoStatus(token) ==
  LET lower == ToLowerCase(token)
  IN \/ StartsWith(lower, Hash) /\ Len(token) > 1
     \/ StartsWith(lower, At) /\ Len(token) > 1
     \/ StartsWith(lower, TypePrefix)
     \/ StartsWith(lower, DuePrefix)
     \/ StartsWith(lower, TitlePrefix)

IsDelimiterToken(token) ==
  LET lower == ToLowerCase(token)
  IN \/ StartsWith(lower, Hash) /\ Len(token) > 1
     \/ StartsWith(lower, At) /\ Len(token) > 1
     \/ StartsWith(lower, TypePrefix)
     \/ StartsWith(lower, DuePrefix)
     \/ StartsWith(lower, TitlePrefix)
     \/ IsStatusToken(token)

\* input.trim().split(/\s+/).filter(Boolean)
RECURSIVE SplitLoop(_, _, _)
SplitLoop(str, word, out) ==
  IF str = <<>>
    THEN IF word = <<>> THEN out ELSE Append(out, word)
    ELSE IF Head(str) = Blank
      THEN SplitLoop(Tail(str), <<>>, IF word = <<>> THEN out ELSE Append(out, word))
      ELSE SplitLoop(Tail(str), Append(word, Head(str)), out)

Tokens(input) == SplitLoop(Trim(input), <<>>, <<>>)

\* parts.join(' ')
RECURSIVE Join(_)
Join(parts) ==
  IF parts = <<>>
    THEN <<>>
    ELSE IF Len(parts) = 1
      THEN parts[1]
      ELSE parts[1] \o <<Blank>> \o Join(Tail(parts))

\* Array.from(new Set(tags)): the first occurrence of each tag, in order
RECURSIVE UniqueTags(_)
UniqueTags(tags) ==
  IF tags = <<>>
    THEN <<>>
    ELSE LET front == UniqueTags(SubSeq(tags, 1, Len(tags) - 1))
             last == tags[Len(tags)]
         IN IF \E i \in 1..Len(front) : front[i] = last
              THEN front
              ELSE Append(front, last)

\* The locals of parseQuickAdd.  An undefined context, status, type or due_at
\* is the empty string: none of them is ever set to an empty value.
NoParts == [given |-> FALSE, parts |-> <<>>]

ParseStart ==
  [tags |-> <<>>, titleParts |-> <<>>, explicitTitleParts |-> NoParts,
   context |-> <<>>, status |-> <<>>, type |-> <<>>, due_at |-> <<>>]

\* the while loop of a title: token, tokens counted from 1
RECURSIVE Collect(_, _, _)
Collect(tokens, nextIndex, collected) ==
  IF nextIndex <= Len(tokens) /\ ~IsDelimiterToken(tokens[nextIndex])
    THEN Collect(tokens, nextIndex + 1, Append(collected, tokens[nextIndex]))
    ELSE [collected |-> collected, nextIndex |-> nextIndex]

\* an @ branch that is taken whether or not a context is set
TakesContextAlways(token, context) ==
  StartsWith(ToLowerCase(token), At) /\ Len(token) > 1

\* the guard of the @ branch
TakesContext(token, context) ==
  StartsWith(ToLowerCase(token), At) /\ Len(token) > 1 /\ context = <<>>

\* the for loop of parseQuickAdd
RECURSIVE ParseLoop(_, _, _)
ParseLoop(tokens, i, st) ==
  IF i > Len(tokens)
    THEN st
    ELSE
      LET token == tokens[i]
          lower == ToLowerCase(token)
      IN IF StartsWith(lower, TitlePrefix)
           THEN LET initial == Slice(token, 6)
                    c == Collect(tokens, i + 1,
                                 IF initial # <<>> THEN <<initial>> ELSE <<>>)
                IN ParseLoop(tokens, c.nextIndex,
                             [st EXCEPT !.explicitTitleParts =
                                [given |-> TRUE, parts |-> c.collected]])
         ELSE IF StartsWith(lower, Hash) /\ Len(token) > 1
           THEN LET tag == NormalizeTag(Slice(token, 1))
                IN ParseLoop(tokens, i + 1,
                             IF tag # <<>> THEN [st EXCEPT !.tags = Append(@, tag)]
                                           ELSE st)
         ELSE IF TakesContext(token, st.context)
           THEN LET nextContext == NormalizeTokenValue(Slice(token, 1))
                IN ParseLoop(tokens, i + 1,
                             IF nextContext # <<>>
                               THEN [st EXCEPT !.context = nextContext]
                               ELSE st)
         ELSE IF /\ IsStatusToken(token)
                 /\ NormalizeTokenValue(Slice(lower, 1)) \in STATUSES
           THEN ParseLoop(tokens, i + 1,
                          [st EXCEPT !.status = NormalizeTokenValue(Slice(lower, 1))])
         ELSE IF /\ StartsWith(lower, TypePrefix)
                 /\ NormalizeTokenValue(Slice(lower, 5)) \in {Idea, Task}
           THEN ParseLoop(tokens, i + 1,
                          [st EXCEPT !.type = NormalizeTokenValue(Slice(lower, 5))])
         ELSE IF /\ StartsWith(lower, DuePrefix)
                 /\ IsValidDueDate(NormalizeTokenValue(Slice(token, 4)))
           THEN ParseLoop(tokens, i + 1,
                          [st EXCEPT !.due_at = NormalizeTokenValue(Slice(token, 4))])
         ELSE ParseLoop(tokens, i + 1, [st EXCEPT !.titleParts = Append(@, token)])

ParseQuickAdd(input) ==
  LET st == ParseLoop(Tokens(input), 1, ParseStart)
  IN [title |-> Trim(Join(IF st.explicitTitleParts.given
                            THEN st.explicitTitleParts.parts
                            ELSE st.titleParts)),
      tags |-> UniqueTags(st.tags),
      context |-> st.context,
      status |-> st.status,
      type |-> st.type,
      due_at |-> st.due_at]

\* The words a line is made of: plain words, tokens of every kind in a form
\* the parser takes and in forms it does not.
Vocabulary ==
  {<<"B", "u", "y">>,
   <<"#", "T", "a", "g", ".">>, <<"#", "t", "a", "g">>, <<"#", ".", "x">>,
   <<"#", ".">>, <<"#">>,
   <<"@", "h", "o", "m", "e">>, <<"@", "S", "h", "o", "p", ",">>, <<"@", ".">>,
   <<"!", "d", "o", "n", "e">>, <<"!", "D", "o", "n", "e", ".">>, <<"!", "x">>,
   <<"t", "y", "p", "e", ":", "t", "a", "s", "k">>, <<"t", "y", "p", "e", ":", "x">>,
   <<"d", "u", "e", ":", "2", "0", "2", "4", "-", "0", "1", "-", "0", "5">>,
   <<"d", "u", "e", ":", "1", "-", "5">>,
   <<"t", "i", "t", "l", "e", ":">>, <<"T", "i", "t", "l", "e", ":", "T">>}

TokenLists == UNION {[1..n -> Vocabulary] : n \in 0..MaxTokens}

\* the line the user types: the words with one blank between them, or with
\* two and blanks around the line
RECURSIVE Typed(_, _)
Typed(words, gap) ==
  IF words = <<>>
    THEN <<>>
    ELSE IF Len(words) = 1
      THEN words[1]
      ELSE words[1] \o gap \o Typed(Tail(words), gap)

Lines(words) ==
  {Typed(words, <<Blank>>), <<Blank>> \o Typed(words, <<Blank, Blank>>) \o <<Blank>>}

NoParse ==
  [title |-> <<>>, tags |-> <<>>, context |-> <<>>, status |-> <<>>,
   type |-> <<>>, due_at |-> <<>>]

InitParse ==
  /\ storage = NoItem
  /\ events = 0
  /\ queueCount = GetQueueCount
  /\ returned = Null
  /\ refused = {}
  /\ warned = {}
  /\ nodes = {}
  /\ session = "u1"
  /\ nextId = 0
  /\ now = 0
  /\ sync = [p \in SyncProcs |-> IdleSync]
  /\ inflight = [p \in SyncProcs |-> FALSE]
  /\ result = NoResult
  /\ batch = NoBatch
  /\ cap = IdleCap
  /\ removedLog = {}
  /\ syncRuns = 0
  /\ records = 0
  /\ faults = 0
  /\ \E words \in TokenLists : \E line \in Lines(words) :
       call = [fn |-> "parseQuickAdd", words |-> words, arg |-> line,
               done |-> FALSE, out |-> NoParse]

\* parseQuickAdd(arg) is called and returns
Parse ==
  /\ call.fn = "parseQuickAdd"
  /\ ~call.done
  /\ call' = [call EXCEPT !.done = TRUE, !.out = ParseQuickAdd(call.arg)]
  /\ UNCHANGED <<storage, events, queueCount, returned, refused, warned, nodes, session,
                 nextId, now, sync, inflight, result, batch, cap, removedLog, syncRuns,
                 records, faults>>

NextParse == Parse

SpecParse == InitParse /\ [][NextParse]_vars

\* ------------------------------------------- createNodeWithTags alone
\* One call of createNodeWithTags with a payload of up to MaxWriteTags tags,
\* in either mode, against every answer of the remote store.
WritePayloads ==
  {[title |-> <<Titles[1]>>, tags |-> SubSeq(AllTags, 1, n),
    duration_minutes |-> JsonNull] : n \in 0..MaxWriteTags}

NoOutcome ==
  [threw |-> FALSE, error |-> Null, tagErrors |-> <<>>, calls |-> <<>>, stored |-> FALSE]

InitWrite ==
  /\ storage = NoItem
  /\ events = 0
  /\ queueCount = GetQueueCount
  /\ returned = Null
  /\ refused = {}
  /\ warned = {}
  /\ nodes = {}
  /\ session = "u1"
  /\ nextId = 0
  /\ now = 0
  /\ sync = [p \in SyncProcs |-> IdleSync]
  /\ inflight = [p \in SyncProcs |-> FALSE]
  /\ result = NoResult
  /\ batch = NoBatch
  /\ cap = IdleCap
  /\ removedLog = {}
  /\ syncRuns = 0
  /\ records = 0
  /\ faults = 0
  /\ \E payload \in WritePayloads : \E allowPartialTags \in BOOLEAN :
       \E resp \in Responses(payload, allowPartialTags) :
         call = [fn |-> "createNodeWithTags", payload |-> payload,
                 allowPartialTags |-> allowPartialTags, resp |-> resp,
                 done |-> FALSE, out |-> NoOutcome]

\* createNodeWithTags(payload, allowPartialTags) is called, the remote store
\* answers with resp, and the call returns or throws
Write ==
  /\ call.fn = "createNodeWithTags"
  /\ ~call.done
  /\ call' = [call EXCEPT !.done = TRUE,
                          !.out = CreateNodeWithTags(call.payload, call.allowPartialTags,
                                                     call.resp)]
  /\ UNCHANGED <<storage, events, queueCount, returned, refused, warned, nodes, session,
                 nextId, now, sync, inflight, result, batch, cap, removedLog, syncRuns,
                 records, faults>>

NextWrite == Write

SpecWrite == InitWrite /\ [][NextWrite]_vars

\* --------------------------------------------- reading what is stored
\* localStorage[STORAGE_KEY] as another version of the app, another tab or the
\* user may have left it: the entries enqueuePayload writes, and values that
\* are not entries.
StoredEntry(k) ==
  StringifyItem(NewItem(k, k, [title |-> <<Titles[k]>>, tags |-> <<>>,
                                duration_minutes |-> JsonNull], Absent))

StoredElements ==
  {StoredEntry(1), StoredEntry(2),
   AsNull, AsString("e1"), AsNumber(1), AsArray(<<>>),
   AsObject([createdAt |-> AsNumber(1), attempts |-> AsNumber(0)]),
   AsObject([id |-> AsNumber(7), createdAt |-> AsNumber(1), attempts |-> AsNumber(0)]),
   AsObject([id |-> AsString(3), createdAt |-> AsString("1"), attempts |-> AsNumber(0)]),
   AsObject([id |-> AsString(3), createdAt |-> AsNumber(1), attempts |-> AsNull]),
   AsObject([id |-> AsString(3), createdAt |-> AsNumber(1)]),
   AsObject([id |-> AsString(4), createdAt |-> AsNumber(0), attempts |-> AsNumber(2)])}

StoredArrays ==
  UNION {[1..n -> StoredElements] : n \in 0..MaxStored}

StoredValues ==
  {NoItem, EmptyText, Unparsable, TextOf(AsNull), TextOf(AsNumber(5)),
   TextOf(AsString("x")), TextOf(StoredEntry(1))}
    \cup {[text |-> elements] : elements \in StoredArrays}

InitStored ==
  /\ storage \in StoredValues
  /\ events = 0
  /\ queueCount = GetQueueCount
  /\ returned = Null
  /\ refused = {}
  /\ warned = {}
  /\ nodes = {}
  /\ session = "u1"
  /\ nextId = 0
  /\ now = 0
  /\ sync = [p \in SyncProcs |-> IdleSync]
  /\ inflight = [p \in SyncProcs |-> FALSE]
  /\ result = NoResult
  /\ batch = NoBatch
  /\ cap = IdleCap
  /\ removedLog = {}
  /\ syncRuns = 0
  /\ records = 0
  /\ faults = 0
  /\ call = [fn |-> "getQueue", done |-> FALSE, out |-> <<>>, count |-> 0]

\* getQueue() and getQueueCount() are called and return
ReadStored ==
  /\ call.fn = "getQueue"
  /\ ~call.done
  /\ call' = [call EXCEPT !.done = TRUE, !.out = GetQueue, !.count = GetQueueCount]
  /\ UNCHANGED <<storage, events, queueCount, returned, refused, warned, nodes, session, nextId,
                 now, sync, inflight, result, batch, cap, removedLog, syncRuns, records, faults>>

NextStored == ReadStored

SpecStored == InitStored /\ [][NextStored]_vars

\* ------------------------------------------------- the classifier alone
\* the error values shouldQueueError is applied to: nothing, strings, a
\* number, and objects with every mix of message, code and status
ErrorValues ==
  {Null, StringValue(""), StringValue("offline"), NumberValue(0)}
    \cup [message : {"", NetworkError.message, PermissionDenied.message},
          code : {"", PermissionDenied.code} \cup ValidationCodes,
          status : {0, CheckViolation.status, ServerError.status}]

InitClassifier ==
  /\ storage = NoItem
  /\ events = 0
  /\ queueCount = GetQueueCount
  /\ returned = Null
  /\ refused = {}
  /\ warned = {}
  /\ nodes = {}
  /\ session = "u1"
  /\ nextId = 0
  /\ now = 0
  /\ sync = [p \in SyncProcs |-> IdleSync]
  /\ inflight = [p \in SyncProcs |-> FALSE]
  /\ result = NoResult
  /\ batch = NoBatch
  /\ cap = IdleCap
  /\ removedLog = {}
  /\ syncRuns = 0
  /\ records = 0
  /\ faults = 0
  /\ call \in [fn : {"shouldQueueError"}, arg : ErrorValues, done : {FALSE}, out : {FALSE}]

\* shouldQueueError(arg) is called and returns
Classify ==
  /\ call.fn = "shouldQueueError"
  /\ ~call.done
  /\ call' = [call EXCEPT !.done = TRUE, !.out = ShouldQueueError(call.arg)]
  /\ UNCHANGED <<storage, events, queueCount, returned, refused, warned, nodes, session, nextId,
                 now, sync, inflight, result, batch, cap, removedLog, syncRuns, records, faults>>

NextClassifier == Classify

SpecClassifier == InitClassifier /\ [][NextClassifier]_vars

\* ----------------------------------------------------------- properties
\* the step in which the syncOfflineQueue call of p stores its queue and returns
SyncReturns(p) == sync[p].pc = "write" /\ sync'[p].pc = "idle" /\ ~Restart

\* the step in which the interactive write's continuation runs
SaveEnds == cap.pc = "write" /\ cap'.pc = "idle" /\ ~Restart

\* the record the form submits
Submitted ==
  [title |-> Trim(cap.title), tags |-> cap.tags,
   duration_minutes |-> IF cap.duration # "" THEN cap.duration ELSE JsonNull]

NodesOf(title) == {row \in nodes : row.title = title}

\* C1: an entry appended to the stored queue after a sync call took its
\* snapshot (so while the call awaited a write) is still stored when the call
\* returns.
C1_EnqueuedEntrySurvivesSync ==
  [][\A p \in SyncProcs :
       SyncReturns(p) =>
         \A i \in 1..Len(GetQueue) :
           GetQueue[i].id \notin Ids(sync[p].items) => GetQueue[i].id \in Ids(GetQueue')]_vars

\* C2: over its first attempt and all its replays, a capture record (a title)
\* has at most one row in the remote nodes table.
C2_AtMostOneNodePerRecord ==
  \A k \in 1..Len(Titles) : Cardinality(NodesOf(<<Titles[k]>>)) <= 1

\* C3: when a sync call returns, every entry whose write threw in it is stored
\* with one more attempt, every entry whose write succeeded is gone from the
\* stored queue, and synced counts exactly the latter; so an entry that fails in
\* N cycles and succeeds in the next is stored after each of the N and removed,
\* and counted, by cycle N+1.
C3_FailedStaysSucceededLeaves ==
  [][\A p \in SyncProcs :
       SyncReturns(p) =>
         /\ \A e \in batch'.threw :
              \E i \in 1..Len(GetQueue') :
                GetQueue'[i].id = e.id /\ GetQueue'[i].attempts = e.attempts + 1
         /\ \A e \in batch'.succeeded : e.id \notin Ids(GetQueue')
         /\ result'.synced = Cardinality(batch'.succeeded)]_vars

\* C3 witness: a call has returned synced = 1 for an entry that had failed in
\* two earlier cycles, and the entry is no longer stored.
C3_Witness ==
  /\ result.synced = 1
  /\ \E e \in batch.succeeded : e.attempts = 2 /\ e.id \notin Ids(GetQueue)

\* C4: a sync call removes from the stored queue exactly the entries whose
\* write returned without throwing; every other entry stored before it returns
\* is stored afterwards.
C4_RemovesExactlySucceeded ==
  [][\A p \in SyncProcs :
       SyncReturns(p) =>
         \A id \in Ids(GetQueue) :
           id \in Ids(GetQueue') <=> id \notin {e.id : e \in batch'.succeeded}]_vars

C6_TransientFailureIsQueued ==
  [][(/\ SaveEnds
      /\ cap'.caught # Null
      /\ cap'.caught.stage = "node"
      /\ cap'.caught.original.code \notin {"23502", "23514", "22P02", "22001"})
       => /\ Len(GetQueue') = Len(GetQueue) + 1
          /\ SubSeq(GetQueue', 1, Len(GetQueue)) = GetQueue
          /\ GetQueue'[Len(GetQueue')].payload = Submitted
          /\ GetQueue'[Len(GetQueue')].attempts = 0
          /\ GetQueue'[Len(GetQueue')].lastError # Absent
          /\ GetQueue'[Len(GetQueue')].id \notin Ids(GetQueue)
          /\ cap'.message = "offline"]_vars

\* C7: a first write that fails with a validation code leaves the stored queue
\* as it was and shows the error.
C7_PermanentFailureIsNotQueued ==
  [][(/\ SaveEnds
      /\ cap'.caught # Null
      /\ cap'.caught.original.code \in {"23502", "23514", "22P02", "22001"})
       => /\ storage' = storage
          /\ cap'.message = "error"]_vars

\* C7 witness: a capture was refused on a check constraint while an entry was queued.
C7_Witness ==
  /\ cap.message = "error"
  /\ cap.caught # Null
  /\ cap.caught.original = CheckViolation
  /\ Len(GetQueue) > 0

C9_OneSyncAtATime ==
  Cardinality({p \in SyncProcs : sync[p].pc # "idle"}) <= 1

\* C10: no entry that a sync call removed after a successful write is ever
\* stored again.
C10_RemovedStaysRemoved ==
  removedLog \cap Ids(GetQueue) = {}

\* the step in which the syncOfflineQueue call of p goes on after getSession
SyncResumes(p) == sync[p].pc = "getSession" /\ sync'[p] # sync[p] /\ ~Restart

\* the step in which the write awaited by the syncOfflineQueue call of p returns
WriteReturns(p) == sync[p].pc = "write" /\ sync'[p] # sync[p] /\ ~Restart

\* the entry whose write the call of p awaits
Current(p) == sync[p].items[sync[p].idx]

\* C11: when enqueuePayload(P) is followed by a restart, getQueue then holds an
\* entry with the id, createdAt and attempts that enqueuePayload returned and a
\* payload equal to P.
C11_EnqueuedSurvivesRestart ==
  [][(Restart /\ returned # Null)
       => \E i \in 1..Len(GetQueue') :
            /\ GetQueue'[i].id = returned.id
            /\ GetQueue'[i].createdAt = returned.createdAt
            /\ GetQueue'[i].attempts = returned.attempts
            /\ GetQueue'[i].payload = returned.payload]_vars

\* C12: within one sync batch the entries are attempted in non-decreasing order
\* of createdAt, and the batch consists of the maxItems entries with the smallest
\* createdAt in the queue.
C12_BatchIsOldestCreatedAtFirst ==
  \A p \in SyncProcs :
    sync[p].pc = "write"
      => LET items == sync[p].items
             limit == IF p = "app" THEN AppMaxItems ELSE PageMaxItems
             size == IF Len(items) < limit THEN Len(items) ELSE limit
         IN /\ \A i \in 1..sync[p].idx : \A j \in 1..sync[p].idx :
                  i < j => items[i].createdAt <= items[j].createdAt
            /\ \A i \in 1..size : \A j \in (size + 1)..Len(items) :
                  items[i].createdAt <= items[j].createdAt

\* C12, amended: within one sync batch the entries are attempted in the order in
\* which the queue stores them, which is the order of their enqueuePayload calls
\* and not always the order of createdAt, and the batch consists of the first
\* maxItems entries of the stored queue.
C12_BatchIsStoredOrderPrefix ==
  [][\A p \in SyncProcs :
       LET limit == IF p = "app" THEN AppMaxItems ELSE PageMaxItems
           size == IF Len(sync[p].items) < limit THEN Len(sync[p].items) ELSE limit
       IN /\ (SyncResumes(p) /\ sync'[p].pc = "write")
               => /\ sync'[p].items = GetQueue
                  /\ sync'[p].idx = 1
                  /\ \A i \in 1..Len(GetQueue) : \A j \in 1..Len(GetQueue) :
                        i < j => GetQueue[i].id < GetQueue[j].id
          /\ (WriteReturns(p) /\ sync'[p].pc = "write")
               => /\ sync'[p].items = sync[p].items
                  /\ sync'[p].idx = sync[p].idx + 1
                  /\ sync'[p].idx <= limit
          /\ SyncReturns(p)
               => /\ sync[p].idx = size
                  /\ result'.attempted = size]_vars

\* C12 witness: the header's call awaits the last write of a batch cut at its
\* limit, from a queue that holds more entries and whose createdAt values are
\* not in stored order.
C12_Witness ==
  /\ sync["app"].pc = "write"
  /\ sync["app"].idx = AppMaxItems
  /\ Len(sync["app"].items) > AppMaxItems
  /\ \E i \in 1..Len(sync["app"].items) : \E j \in 1..Len(sync["app"].items) :
        i < j /\ sync["app"].items[i].createdAt > sync["app"].items[j].createdAt

\* C13: a syncOfflineQueue call that finds no session or an empty queue returns
\* at once: no remote call, no write of the stored queue, no event, and the
\* result is attempted 0, synced 0, remaining the current queue count.
C13_NoSessionOrEmptyIsNoOp ==
  [][\A p \in SyncProcs :
       (SyncResumes(p) /\ (session = NoSession \/ GetQueueCount = 0))
         => /\ sync'[p].pc = "idle"
            /\ nodes' = nodes
            /\ refused' = refused
            /\ storage' = storage
            /\ events' = events
            /\ result' = [attempted |-> 0, synced |-> 0, remaining |-> Len(GetQueue)]]_vars

\* C13 witness: a call has returned without an attempt while entries are
\* queued and nobody is signed in.
C13_Witness ==
  /\ session = NoSession
  /\ result.attempted = 0
  /\ result.remaining > 0
  /\ result.remaining = GetQueueCount

\* C14: in a replay, when the node insert succeeded and the remote store
\* refused a tag call, the entry leaves the queue and counts as synced, a
\* warning is logged for it, and its attempts are not touched.
C14_TagFailureOnReplayIsSynced ==
  [][\A p \in SyncProcs :
       (WriteReturns(p) /\ refused' # refused)
         => /\ Current(p).id \in warned'
            /\ \E row \in nodes' \ nodes : row.title = Current(p).payload.title
            /\ IF sync'[p].pc = "write"
                 THEN /\ Current(p).id \notin Ids(sync'[p].queue)
                      /\ sync'[p].synced = sync[p].synced + 1
                 ELSE /\ Current(p).id \notin Ids(GetQueue')
                      /\ result'.synced = sync[p].synced + 1
                      /\ \E e \in batch'.succeeded :
                           e.id = Current(p).id /\ e.attempts = Current(p).attempts]_vars

\* C14 witness: an entry with a refused tag was warned about, removed and counted.
C14_Witness ==
  /\ refused # {}
  /\ \E id \in warned :
       /\ id \in removedLog
       /\ id \notin Ids(GetQueue)
       /\ id \in {e.id : e \in batch.succeeded}
  /\ result.synced >= 1

\* C15: from one state to the next, the attempts stored for an entry id never
\* go down.
C15_AttemptsNeverDecrease ==
  [][\A i \in 1..Len(GetQueue) : \A j \in 1..Len(GetQueue') :
       GetQueue[i].id = GetQueue'[j].id
         => GetQueue'[j].attempts >= GetQueue[i].attempts]_vars

\* the three ways an interactive attempt ends
EndsSaved ==
  /\ cap'.message = "success"
  /\ storage' = storage
  /\ \E row \in nodes' \ nodes : row.title = Submitted.title

EndsQueued ==
  /\ cap'.message = "offline"
  /\ Len(GetQueue') = Len(GetQueue) + 1
  /\ SubSeq(GetQueue', 1, Len(GetQueue)) = GetQueue
  /\ GetQueue'[Len(GetQueue')].payload.title = Submitted.title

EndsInError ==
  /\ cap'.message = "error"
  /\ storage' = storage
  /\ cap'.title = cap.title
  /\ cap'.tags = cap.tags
  /\ cap'.duration = cap.duration

\* C16: an interactive attempt that got a session and has a title ends saved
\* with a success message, or queued (one entry appended) with the offline
\* message, or with an error shown, nothing queued and the form kept: exactly
\* one of the three.
C16_ExactlyOneOutcome ==
  [][(SaveEnds)
       => Cardinality({o \in {"saved", "queued", "error"} :
                         \/ o = "saved" /\ EndsSaved
                         \/ o = "queued" /\ EndsQueued
                         \/ o = "error" /\ EndsInError}) = 1]_vars

\* C16 witness: one capture was saved remotely and the next one queued.
C16_Witness ==
  /\ cap.pc = "idle"
  /\ cap.message = "offline"
  /\ records = 2
  /\ GetQueueCount = 1
  /\ \E row \in nodes : row.title = <<Titles[1]>>

\* C17 as claimed: an interactive attempt whose every remote call fails leaves
\* the stored queue as it was and shows an error.
C17_OutageQueuesNothing ==
  [][(/\ SaveEnds
      /\ cap'.caught # Null
      /\ cap'.caught.original = NetworkError
      /\ nodes' = nodes)
       => /\ storage' = storage
          /\ cap'.message = "error"]_vars

\* C17 as amended: with the backend unreachable an interactive attempt still
\* ends in a message.  Without a session nothing is queued and an error is
\* shown; with a session and the node insert failing on the network, the
\* record is appended to the queue and the offline message is shown.
C17_OutageQueuesOrShowsError ==
  [][/\ (cap.pc = "getSession" /\ cap' # cap /\ ~Restart /\ session = NoSession)
          => /\ cap'.pc = "idle"
             /\ EndsInError
             /\ nodes' = nodes
     /\ (/\ SaveEnds
         /\ cap'.caught # Null
         /\ cap'.caught.original = NetworkError
         /\ nodes' = nodes)
          => EndsQueued]_vars

\* C17 witness: with a session, the node insert of a capture failed on the
\* network, no row reached the remote store, and the capture ended queued with
\* the offline message.
C17_Witness ==
  /\ cap.pc = "idle"
  /\ cap.message = "offline"
  /\ cap.caught # Null
  /\ cap.caught.stage = "node"
  /\ cap.caught.original = NetworkError
  /\ session # NoSession
  /\ nodes = {}
  /\ GetQueueCount = 1

HasRequiredFields(element) ==
  /\ "object" \in DOMAIN element
  /\ {"id", "createdAt", "attempts"} \subseteq DOMAIN element.object
  /\ "string" \in DOMAIN element.object.id
  /\ "number" \in DOMAIN element.object.createdAt
  /\ "number" \in DOMAIN element.object.attempts

\* C21: when the stored value is absent, unparsable or not an array, getQueue
\* returns the empty list and getQueueCount 0; when it is an array, the elements
\* without a string id, a numeric createdAt or a numeric attempts are left out
\* and the others are returned in stored order.
C21_ReadDegradesToEmptyOrFilters ==
  (call.fn = "getQueue" /\ call.done)
    => IF "text" \in DOMAIN storage
         THEN LET kept == SelectSeq(storage.text, HasRequiredFields)
              IN /\ Len(call.out) = Len(kept)
                 /\ call.count = Len(kept)
                 /\ \A i \in 1..Len(kept) :
                      /\ call.out[i].id = kept[i].object.id.string
                      /\ call.out[i].createdAt = kept[i].object.createdAt.number
                      /\ call.out[i].attempts = kept[i].object.attempts.number
         ELSE /\ call.out = <<>>
              /\ call.count = 0

\* C21 witness: getQueue has returned one entry of a stored array of two
\* elements, the first of which is not an entry.
C21_Witness ==
  /\ call.fn = "getQueue"
  /\ call.done
  /\ "text" \in DOMAIN storage
  /\ Len(storage.text) = 2
  /\ ~HasRequiredFields(storage.text[1])
  /\ Len(call.out) = 1
  /\ call.count = 1
C23_QueuedTitleIsNotBlank ==
  [][(SaveEnds /\ Len(GetQueue') > Len(GetQueue))
       => Trim(GetQueue'[Len(GetQueue')].payload.title) # <<>>]_vars

\* C23 witness: two captures typed with blanks around their titles are queued,
\* the second just now.
C23_Witness ==
  /\ cap.pc = "idle"
  /\ cap.message = "offline"
  /\ GetQueueCount = 2
  /\ \A i \in 1..2 : GetQueue[i].payload.title = <<Titles[i]>>

\* the call of parseQuickAdd has returned
Parsed == call.fn = "parseQuickAdd" /\ call.done

\* the tokens of a line by their look
IsTagToken(token) == StartsWith(token, Hash) /\ Len(token) > 1

IsAtToken(token) == StartsWith(token, At) /\ Len(token) > 1

AtValue(token) == NormalizeTokenValue(Slice(token, 1))

IsTypeToken(token) ==
  /\ StartsWith(ToLowerCase(token), TypePrefix)
  /\ NormalizeTokenValue(Slice(ToLowerCase(token), 5)) \in {Idea, Task}

IsDueToken(token) ==
  /\ StartsWith(ToLowerCase(token), DuePrefix)
  /\ IsValidDueDate(NormalizeTokenValue(Slice(token, 4)))

IsTitleToken(token) == StartsWith(ToLowerCase(token), TitlePrefix)

HasTitleToken(words) == \E k \in 1..Len(words) : IsTitleToken(words[k])

\* "the first @context" read as the first @token, or as the first @token that
\* has a value
Readings == {"first @token", "first @token with a value"}

IsFirstContext(words, i, reading) ==
  IF reading = "first @token"
    THEN /\ IsAtToken(words[i])
         /\ \A j \in 1..(i - 1) : ~IsAtToken(words[j])
    ELSE /\ IsAtToken(words[i]) /\ AtValue(words[i]) # <<>>
         /\ \A j \in 1..(i - 1) : ~(IsAtToken(words[j]) /\ AtValue(words[j]) # <<>>)

Recognised(words, i, reading) ==
  \/ IsTagToken(words[i])
  \/ IsFirstContext(words, i, reading)
  \/ IsStatusToken(words[i])
  \/ IsTypeToken(words[i])
  \/ IsDueToken(words[i])

\* the tokens that were not recognised, joined by single blanks in their order
UnrecognisedTitle(words, reading) ==
  LET rest == SelectSeq([i \in 1..Len(words) |-> i],
                        LAMBDA i : ~Recognised(words, i, reading))
  IN Join([k \in 1..Len(rest) |-> words[rest[k]]])

\* C24: for a line without a title: token the parsed title is exactly the
\* tokens not recognised as a #tag, the first @context, a !status naming a
\* status, type:idea or type:task, or a due: with a YYYY-MM-DD value, joined by
\* single blanks in their order; without a !status naming a status no status
\* is set, and without a well-formed due: no due date.
C24_TitleIsTheUnrecognisedTokens ==
  (Parsed /\ ~HasTitleToken(call.words))
    => /\ \E reading \in Readings :
            call.out.title = UnrecognisedTitle(call.words, reading)
       /\ (\A i \in 1..Len(call.words) : ~IsStatusToken(call.words[i]))
            => call.out.status = <<>>
       /\ (\A i \in 1..Len(call.words) : ~IsDueToken(call.words[i]))
            => call.out.due_at = <<>>

\* the delimiters that end the span of a title: token
EndsTitleSpan(token) ==
  \/ IsTagToken(token)
  \/ IsAtToken(token)
  \/ StartsWith(ToLowerCase(token), TypePrefix)
  \/ StartsWith(ToLowerCase(token), DuePrefix)
  \/ IsTitleToken(token)
  \/ IsStatusToken(token)

\* the text after title: in token k and the tokens after it up to the next
\* delimiter, joined by single blanks
TitleSpan(words, k) ==
  LET ends == {m \in (k + 1)..Len(words) : EndsTitleSpan(words[m])}
      stop == IF ends = {} THEN Len(words) + 1
                           ELSE CHOOSE m \in ends : \A n \in ends : m <= n
      initial == Slice(words[k], 6)
  IN Join((IF initial # <<>> THEN <<initial>> ELSE <<>>)
            \o SubSeq(words, k + 1, stop - 1))

\* C25 as claimed: when a title: token is present, the parsed title is the
\* text after title: in that token and the tokens after it up to the next
\* delimiter, and nothing else.
C25_TitleIsTheSpanOfATitleToken ==
  Parsed
    => \A k \in 1..Len(call.words) :
         IsTitleToken(call.words[k]) => call.out.title = TitleSpan(call.words, k)

\* C25 as amended: when title: tokens are present, the parsed title is the
\* text after title: in the last of them and the tokens after it up to the
\* next delimiter, and nothing else.
C25_TitleIsTheSpanOfTheLastTitleToken ==
  Parsed
    => \A k \in 1..Len(call.words) :
         (/\ IsTitleToken(call.words[k])
          /\ \A n \in (k + 1)..Len(call.words) : ~IsTitleToken(call.words[n]))
           => call.out.title = TitleSpan(call.words, k)

\* C25 witness: a line of a title: token with text, a second title: token and
\* a plain word has been parsed, and the title is the plain word.
C25_Witness ==
  /\ Parsed
  /\ Len(call.words) = 3
  /\ IsTitleToken(call.words[1])
  /\ Slice(call.words[1], 6) # <<>>
  /\ IsTitleToken(call.words[2])
  /\ ~EndsTitleSpan(call.words[3])
  /\ call.out.title = call.words[3]

\* C26: every tag of a parse result is non-empty, lower-case, without
\* punctuation at its start and at its end, and there once only.
C26_TagsAreNormalised ==
  Parsed
    => \A i \in 1..Len(call.out.tags) :
         LET tag == call.out.tags[i]
         IN /\ tag # <<>>
            /\ ToLowerCase(tag) = tag
            /\ tag[1] \notin Punctuation
            /\ tag[Len(tag)] \notin Punctuation
            /\ \A j \in 1..Len(call.out.tags) : call.out.tags[j] = tag => j = i

\* C27: the parsed context is the value of the first @token of the line that
\* has a non-empty value, and none when no @token has one.
C27_ContextIsTheFirstWithAValue ==
  Parsed
    => LET valued == {i \in 1..Len(call.words) :
                        StartsWith(call.words[i], At) /\ AtValue(call.words[i]) # <<>>}
       IN IF valued = {}
            THEN call.out.context = <<>>
            ELSE call.out.context =
                   AtValue(call.words[CHOOSE i \in valued : \A j \in valued : i <= j])

\* C27 witness: of three @tokens the first has no value and the other two
\* have different ones; the context is the value of the second.
C27_Witness ==
  /\ Parsed
  /\ Len(call.words) = 3
  /\ \A i \in 1..3 : IsAtToken(call.words[i])
  /\ AtValue(call.words[1]) = <<>>
  /\ AtValue(call.words[2]) # <<>>
  /\ AtValue(call.words[3]) # <<>>
  /\ AtValue(call.words[2]) # AtValue(call.words[3])
  /\ call.out.context = AtValue(call.words[2])

\* the call of createNodeWithTags has ended
Written == call.fn = "createNodeWithTags" /\ call.done

\* the tag calls among the remote calls of the ended call
TagCalls == SelectSeq(call.out.calls, LAMBDA c : c[1] \in {"upsert", "link"})

\* the tags of the payload the remote store refuses, at either step
FailingTags == {i \in 1..Len(call.payload.tags) : call.resp.tags[i] # "ok"}

\* the remote calls for tags from..to when all of them are made: the upsert of
\* each tag and, unless the upsert failed, its link
RECURSIVE CallsFor(_, _)
CallsFor(from, to) ==
  IF from > to
    THEN <<>>
    ELSE <<<<"upsert", call.payload.tags[from]>>>>
           \o (IF call.resp.tags[from] = "upsert"
                 THEN <<>>
                 ELSE <<<<"link", call.payload.tags[from]>>>>)
           \o CallsFor(from + 1, to)

\* C28: when the node insert of createNodeWithTags fails, the call ends with a
\* node-stage failure and makes no tag upsert and no tag link call, in tolerant
\* and in non-tolerant mode.
C28_NodeFailureStopsTheCall ==
  (Written /\ call.resp.node.error # Null)
    => /\ call.out.threw
       /\ call.out.error.stage = "node"
       /\ call.out.error.original = call.resp.node.error
       /\ TagCalls = <<>>

\* C28 witness: a tolerant call with three tags, each of which the remote
\* store would have taken, has thrown after the insert alone.
C28_Witness ==
  /\ Written
  /\ call.allowPartialTags
  /\ call.resp.node.error # Null
  /\ Len(call.payload.tags) = MaxWriteTags
  /\ FailingTags = {}
  /\ call.out.threw
  /\ Len(call.out.calls) = 1

\* C29: in non-tolerant mode the first failing tag upsert or link ends the
\* call with a tag-stage failure, with no call for the rest of that tag or for
\* a later tag; a non-tolerant call that returns has no tag errors.
C29_FirstTagFailureAborts ==
  (Written /\ ~call.allowPartialTags /\ call.resp.node.error = Null)
    => /\ FailingTags # {}
            => LET first == CHOOSE i \in FailingTags : \A j \in FailingTags : i <= j
               IN /\ call.out.threw
                  /\ call.out.error.stage = "tag"
                  /\ TagCalls = CallsFor(1, first)
       /\ FailingTags = {} => ~call.out.threw
       /\ ~call.out.threw => call.out.tagErrors = <<>>

\* C29 witness: a non-tolerant call with three tags has thrown at the upsert
\* of the second, which the remote store refused along with the third.
C29_Witness ==
  /\ Written
  /\ ~call.allowPartialTags
  /\ call.resp.node.error = Null
  /\ Len(call.payload.tags) = MaxWriteTags
  /\ FailingTags = {2, 3}
  /\ call.resp.tags[2] = "upsert"
  /\ call.out.threw
  /\ Len(TagCalls) = 3

\* C30: in tolerant mode, once the node insert has succeeded, the call returns:
\* every tag is attempted in payload order whatever failed before it, one
\* error is collected for each failing tag, and no link is attempted for a tag
\* whose upsert failed.
C30_TolerantCallAlwaysReturns ==
  (Written /\ call.allowPartialTags /\ call.resp.node.error = Null)
    => /\ ~call.out.threw
       /\ call.out.stored
       /\ TagCalls = CallsFor(1, Len(call.payload.tags))
       /\ Len(call.out.tagErrors) = Cardinality(FailingTags)

\* C30 witness: a tolerant call with three tags has returned with two errors,
\* the upsert of the first tag and the link of the second having failed.
C30_Witness ==
  /\ Written
  /\ call.allowPartialTags
  /\ call.resp.node.error = Null
  /\ Len(call.payload.tags) = MaxWriteTags
  /\ call.resp.tags = <<"upsert", "link", "ok">>
  /\ ~call.out.threw
  /\ Len(call.out.tagErrors) = 2
  /\ Len(TagCalls) = 5

\* the entries the returning syncOfflineQueue call of p attempted, as it read them
Attempted(p) == SubSeq(sync[p].items, 1, sync[p].idx)

\* the messages a write of this payload may throw in a replay
ThrownMessages(payload) ==
  {ErrorToString(CreateNodeWithTags(payload, TRUE, resp).error) :
     resp \in {x \in Responses(payload, TRUE) : CreateNodeWithTags(payload, TRUE, x).threw}}

\* C31: when a sync call returns, every entry whose write threw in it is stored
\* with the id, createdAt and payload it was read with, one more attempt and the
\* thrown error's message as lastError, and every stored entry the call did not
\* attempt is stored as it was.
C31_ThrowUpdatesOnlyThatEntry ==
  [][\A p \in SyncProcs :
       SyncReturns(p) =>
         /\ \A k \in 1..Len(Attempted(p)) :
              Attempted(p)[k].id \in {e.id : e \in batch'.threw}
                => \E i \in 1..Len(GetQueue') :
                     /\ GetQueue'[i].id = Attempted(p)[k].id
                     /\ GetQueue'[i].createdAt = Attempted(p)[k].createdAt
                     /\ GetQueue'[i].payload = Attempted(p)[k].payload
                     /\ GetQueue'[i].attempts = Attempted(p)[k].attempts + 1
                     /\ GetQueue'[i].lastError \in ThrownMessages(Attempted(p)[k].payload)
         /\ \A i \in 1..Len(GetQueue) :
              GetQueue[i].id \notin Ids(Attempted(p))
                => \E j \in 1..Len(GetQueue') : GetQueue'[j] = GetQueue[i]]_vars

\* the stored positions of two ids keep their order over the step
KeepsOrder(before, after) ==
  \A i \in 1..Len(before) : \A j \in 1..Len(before) :
    \A k \in 1..Len(after) : \A l \in 1..Len(after) :
      (i < j /\ after[k].id = before[i].id /\ after[l].id = before[j].id) => k < l

\* C32: a sync call's write leaves the entries that stay stored in their order;
\* a call takes the stored queue as it is and attempts it from the front, one
\* entry after the other; and an entry at the head of the stored queue whose
\* write has failed stays the head, and so is what the next call with a session
\* attempts first, until a sync call's write of it succeeds.
C32_OrderKeptAndFailedHeadRetried ==
  [][/\ \A p \in SyncProcs :
          /\ SyncReturns(p) => KeepsOrder(GetQueue, GetQueue')
          /\ (SyncResumes(p) /\ session # NoSession /\ GetQueue # <<>>)
               => /\ sync'[p].pc = "write"
                  /\ sync'[p].items = GetQueue
                  /\ sync'[p].idx = 1
          /\ (WriteReturns(p) /\ sync'[p].pc = "write")
               => /\ sync'[p].items = sync[p].items
                  /\ sync'[p].idx = sync[p].idx + 1
          /\ (SyncReturns(p) /\ sync[p].items[1].id \in {e.id : e \in batch'.threw})
               => /\ GetQueue' # <<>>
                  /\ GetQueue'[1].id = sync[p].items[1].id
     /\ (GetQueue # <<>> /\ GetQueue[1].attempts >= 1)
          => \/ GetQueue' # <<>> /\ GetQueue'[1].id = GetQueue[1].id
             \/ \E p \in SyncProcs :
                  SyncReturns(p) /\ GetQueue[1].id \in {e.id : e \in batch'.succeeded}]_vars

\* no write of one of the first AppMaxItems entries has succeeded so far
HeadsKeepFailing ==
  /\ removedLog \cap 1..AppMaxItems = {}
  /\ sync["app"].synced = 0

\* C33: with every sync call capped at k = AppMaxItems, as long as no write of
\* the first k entries has succeeded, the entry queued behind them is stored as
\* it was queued (attempts 0), has no remote row, and is not the entry a call is
\* attempting: no cycle has attempted it.
C33_EntryBehindFailingBatchStarves ==
  HeadsKeepFailing
    => /\ \E i \in 1..Len(GetQueue) :
            GetQueue[i].id = BatchLen /\ GetQueue[i].attempts = 0
       /\ NodesOf(<<Titles[BatchLen]>>) = {}
       /\ sync["app"].pc = "write" => Current("app").id <= AppMaxItems

\* C33 witness: MaxCappedRuns cycles have run, the last attempted k entries and
\* synced none, each of the first k entries has failed in every one of them,
\* and the entry behind them is still stored with attempts 0.
C33_Witness ==
  /\ syncRuns = MaxCappedRuns
  /\ sync["app"].pc = "idle"
  /\ result = [attempted |-> AppMaxItems, synced |-> 0, remaining |-> BatchLen]
  /\ HeadsKeepFailing
  /\ \A i \in 1..AppMaxItems : GetQueue[i].attempts = MaxCappedRuns
  /\ GetQueue[BatchLen].id = BatchLen /\ GetQueue[BatchLen].attempts = 0

\* C34: when the process ends while a sync call awaits the write of an entry,
\* that entry is stored after the restart with the attempts the call read for it
\* when its cycle began.
C34_InFlightEntrySurvivesRestart ==
  [][Restart =>
       \A p \in SyncProcs :
         sync[p].pc = "write"
           => \E i \in 1..Len(GetQueue') :
                /\ GetQueue'[i].id = Current(p).id
                /\ GetQueue'[i].attempts = Current(p).attempts]_vars

\* the batch of the syncOfflineQueue call of p: the entries it read, up to its cap
BatchOf(p) ==
  SubSeq(sync[p].items, 1,
         IF Len(sync[p].items) < MaxItems(p) THEN Len(sync[p].items) ELSE MaxItems(p))

\* C35: a sync call that goes past its no-op returns leaves the stored queue
\* alone from its read until the write of its last item has returned, and then
\* stores it once; so when the process ends inside the batch, every entry of the
\* batch, whether or not its write has succeeded, is stored after the restart.
C35_OneWriteAtTheEnd ==
  [][\A p \in SyncProcs :
       /\ ((SyncResumes(p) \/ WriteReturns(p)) /\ sync'[p].pc = "write")
            => storage' = storage /\ events' = events
       /\ SyncReturns(p) => events' = events + 1
       /\ (Restart /\ sync[p].pc = "write")
            => Ids(BatchOf(p)) \subseteq Ids(GetQueue')]_vars

\* C36: when a sync call that went past its no-op returns returns, with n the
\* length of the queue it read: attempted is the smaller of maxItems and n,
\* synced plus the number of writes that threw is attempted, remaining is
\* n - synced, and remaining is the length of the queue stored by that step.
C36_ResultCountsAddUp ==
  [][\A p \in SyncProcs :
       SyncReturns(p) =>
         LET n == Len(sync[p].items)
             maxItems == IF p = "app" THEN AppMaxItems ELSE PageMaxItems
         IN /\ result'.attempted = IF maxItems < n THEN maxItems ELSE n
            /\ result'.synced + Cardinality(batch'.threw) = result'.attempted
            /\ result'.synced = Cardinality(batch'.succeeded)
            /\ result'.remaining = n - result'.synced
            /\ result'.remaining = Len(GetQueue')]_vars

\* C36 witness: a call that read more entries than its cap has returned, with
\* one write succeeded and the others thrown, and the stored queue has the
\* length it returned as remaining.
C36_Witness ==
  /\ result.attempted = AppMaxItems
  /\ result.synced = 1
  /\ Cardinality(batch.threw) = AppMaxItems - 1
  /\ result.remaining = BatchLen - 1
  /\ GetQueueCount = result.remaining
  /\ \A p \in SyncProcs : sync[p].pc = "idle"

\* C37: every remote row made by replaying a queued entry is owned by the user
\* who was signed in when the entry was captured, whoever is signed in when the
\* sync call runs.
C37_ReplayedNodeIsTheCaptorsOwn ==
  \A row \in nodes : row.owner_id = CapturedBy

====
